---- MODULE Spec2Model ----
(***************************************************************************)
(* Model of scripts/validate-content.ts, the content validator of the      *)
(* system-articles repository.                                             *)
(*                                                                         *)
(* The program is a single synchronous pass: main() calls validateConfig,  *)
(* validateStructure, validateFrontmatter and (when validateConfig         *)
(* returned a registry) crossValidate, and then prints the verdict and     *)
(* sets the exit status.  Its inputs are the registry file config.json     *)
(* and the directory tree articles/<locale>/.  Both are fixed during a run *)
(* and are drawn in Init.  Each function of the script is one action.      *)
(*                                                                         *)
(* Environment: every path of the tree is a directory or a regular file    *)
(* that can be read; the fs calls of the script therefore return and do    *)
(* not throw.                                                              *)
(***************************************************************************)
EXTENDS Integers, Sequences, FiniteSets, TLC

\* ------------------------------------------------------------------ bounds

\* Largest number of entries of config.json's articles array.
MaxEntries == 2

\* Largest number of directory entries in the whole articles/ tree.
MaxFiles == 2

\* Largest number of issues one zod safeParse reports.
MaxIssues == 2

\* --------------------------------------------------------------- constants

\* const LOCALES = ["ru", "en", "cz"]
LOCALES == <<"ru", "en", "cz">>

LocaleSet == {LOCALES[i] : i \in 1..Len(LOCALES)}

\* Base names that directory entries of a locale directory may carry, in the
\* order readdirSync lists them.
FileOrder == <<"baz", "faq">>

Names == {FileOrder[i] : i \in 1..Len(FileOrder)}

\* Slugs and routes a schema-valid registry entry may carry.
RegSlugs == {"faq", "guide"}

Routes == {"/a", "/b"}

\* The slug a frontmatter block declares when it is not the file's base name.
OtherSlug == "foo-bar"


\* ------------------------------------------------------------------ inputs

\* One registry entry after SystemArticleEntry parsed it (the fields the
\* script reads).
Entries == [slug : RegSlugs, route : Routes]

RECURSIVE SeqsUpTo(_, _)
SeqsUpTo(S, n) ==
    IF n = 0 THEN {<<>>}
    ELSE LET shorter == SeqsUpTo(S, n - 1)
         IN  shorter \cup {Append(s, x) : s \in {t \in shorter : Len(t) = n - 1}, x \in S}

\* config.json: absent, not JSON, JSON with k schema issues, or schema-valid.
ConfigFiles ==
    {[kind |-> "missing", issues |-> 0, articles |-> <<>>],
     [kind |-> "badjson", issues |-> 0, articles |-> <<>>]}
    \cup {[kind |-> "invalid", issues |-> k, articles |-> <<>>] : k \in 1..MaxIssues}
    \cup {[kind |-> "valid", issues |-> 0, articles |-> a] : a \in SeqsUpTo(Entries, MaxEntries)}

\* The registries drawn together with the larger trees: not JSON, or
\* schema-valid with one route per slug.
PlainEntries == {[slug |-> "faq", route |-> "/a"], [slug |-> "guide", route |-> "/b"]}

PlainConfigFiles ==
    {[kind |-> "badjson", issues |-> 0, articles |-> <<>>]}
    \cup {[kind |-> "valid", issues |-> 0, articles |-> a] :
             a \in SeqsUpTo(PlainEntries, MaxEntries)}

\* What gray-matter and SystemArticleFrontmatter make of a file's contents:
\* the block cannot be parsed, it parses with schema issues (as many as the
\* bound allows), or it is schema-valid and declares a slug.
Contents(n) ==
    {[matter |-> "throws", issues |-> 0, slug |-> ""],
     [matter |-> "ok", issues |-> MaxIssues, slug |-> ""]}
    \cup {[matter |-> "ok", issues |-> 0, slug |-> s] : s \in {n, OtherSlug}}

NoContent == [matter |-> "none", issues |-> 0, slug |-> ""]

NoEntry == [present |-> FALSE, ext |-> "", isFile |-> FALSE, content |-> NoContent]

\* The entry of a locale directory whose base name is n: none, or a regular
\* file n.mdx with its contents.
FileEntries(n) ==
    {NoEntry}
    \cup {[present |-> TRUE, ext |-> ".mdx", isFile |-> TRUE, content |-> c] : c \in Contents(n)}

\* The same, and a directory n.mdx, and a regular file n.txt.
DirEntries(n) ==
    FileEntries(n)
    \cup {[present |-> TRUE, ext |-> ".mdx", isFile |-> FALSE, content |-> NoContent],
          [present |-> TRUE, ext |-> ".txt", isFile |-> TRUE, content |-> NoContent]}

\* Directories holding article files of every base name.
FileListings == {d \in [Names -> UNION {FileEntries(n) : n \in Names}] :
                    \A n \in Names : d[n] \in FileEntries(n)}

\* Directories holding any kind of entry, of the base name faq only.
FaqListings == {d \in [Names -> {NoEntry} \cup DirEntries("faq")] :
                   \A n \in Names : d[n] \in (IF n = "faq" THEN DirEntries(n) ELSE {NoEntry})}

EmptyListing == [n \in Names |-> NoEntry]

\* articles/<locale>: absent, or a directory with its entries.
LocaleDirs(listings) ==
    {[exists |-> FALSE, entries |-> EmptyListing]}
    \cup {[exists |-> TRUE, entries |-> d] : d \in listings}

CountPresent(d) == Cardinality({n \in Names : d.entries[n].present})

RECURSIVE SumOver(_, _)
SumOver(f, S) ==
    IF S = {} THEN 0
    ELSE LET x == CHOOSE y \in S : TRUE IN f[x] + SumOver(f, S \ {x})

TreeSize(t) == SumOver([l \in LocaleSet |-> CountPresent(t[l])], LocaleSet)

\* The articles/ trees of at most MaxFiles article files.
FileTrees == {t \in [LocaleSet -> LocaleDirs(FileListings)] : TreeSize(t) <= MaxFiles}

\* The articles/ trees whose entries are all named faq.
FaqTrees == [LocaleSet -> LocaleDirs(FaqListings)]

\* Those of at most one entry.
SmallTrees == {t \in FaqTrees : TreeSize(t) <= 1}

\* The value of main's local config when validateConfig returned null.
NullConfig == [isNull |-> TRUE, articles |-> <<>>]

VARIABLES
    configFile,   \* config.json
    rootExists,   \* articles/ exists
    tree,         \* per locale: whether articles/<locale> exists, and its entries
    pc,           \* position of main
    config,       \* main's local: null or the validated registry
    errorCount,
    warnCount,
    log,          \* every line written to the console, in order
    exitCode      \* -1 until the process ends

vars == <<configFile, rootExists, tree, pc, config, errorCount, warnCount, log, exitCode>>

inputs == <<configFile, rootExists, tree>>

\* ----------------------------------------------------------------- console

\* The console and the two module-scope counters, threaded through the
\* functions below as one record.
Console(l, e, w) == [log |-> l, errorCount |-> e, warnCount |-> w]

\* One console line: the function that wrote it, its level, what it reports
\* and the values interpolated into it.
Line(step, level, kind, locale, name, locales) ==
    [step |-> step, level |-> level, kind |-> kind,
     locale |-> locale, name |-> name, locales |-> locales]

\* console.log of a banner or step header
LogHeader(st, step) ==
    [st EXCEPT !.log = Append(@, Line(step, "header", "header", "", "", <<>>))]

\* logError: print, then errorCount++
LogError(st, line) ==
    [st EXCEPT !.log = Append(@, [line EXCEPT !.level = "error"]),
               !.errorCount = @ + 1]

\* logWarn counting an error.
LogWarnCountsError(st, line) ==
    [st EXCEPT !.log = Append(@, [line EXCEPT !.level = "warn"]),
               !.errorCount = @ + 1]

\* logWarn: print, then warnCount++
LogWarn(st, line) ==
    [st EXCEPT !.log = Append(@, [line EXCEPT !.level = "warn"]),
               !.warnCount = @ + 1]

\* logOk: print only
LogOk(st, line) ==
    [st EXCEPT !.log = Append(@, [line EXCEPT !.level = "ok"])]

\* Only issues[0] is reported.
LogIssuesFirstOnly(st, line, k) ==
    IF k = 0 THEN st ELSE LogError(st, line)

\* for (const issue of result.error.issues) logError(...)
RECURSIVE LogIssues(_, _, _)
LogIssues(st, line, k) ==
    IF k = 0 THEN st
    ELSE LogIssues(LogError(st, line), line, k - 1)

\* ---------------------------------------------------------------- file system

\* existsSync(path.join(ARTICLES_DIR, locale))
LocaleDirExists(t, l) == t[l].exists

\* f.endsWith(".mdx") && statSync(path.join(dir, f)).isFile()
IsMdxFile(e) == e.present /\ e.ext = ".mdx" /\ e.isFile

\* The directory entries readdirSync returns, as [base, ext] names.
RECURSIVE ReadDir(_, _)
ReadDir(d, i) ==
    IF i > Len(FileOrder) THEN <<>>
    ELSE LET n == FileOrder[i]
         IN  (IF d[n].present THEN <<[base |-> n, ext |-> d[n].ext]>> ELSE <<>>)
             \o ReadDir(d, i + 1)

RECURSIVE FilterMdx(_, _)
FilterMdx(d, names) ==
    IF names = <<>> THEN <<>>
    ELSE (IF IsMdxFile(d[Head(names).base]) THEN <<Head(names)>> ELSE <<>>)
         \o FilterMdx(d, Tail(names))

\* listMdxFiles(dir)
listMdxFiles(t, l) ==
    IF ~LocaleDirExists(t, l) THEN <<>>
    ELSE FilterMdx(t[l].entries, ReadDir(t[l].entries, 1))

\* path.basename(file, ".mdx")
BaseName(file) == IF file.ext = ".mdx" THEN file.base ELSE file.base \o file.ext

\* existsSync(path.join(ARTICLES_DIR, l, `${slug}.mdx`)): true of any kind of
\* directory entry with that name.
ArticlePathExists(t, l, slug) ==
    /\ LocaleDirExists(t, l)
    /\ slug \in Names
    /\ t[l].entries[slug].present
    /\ t[l].entries[slug].ext = ".mdx"

\* LOCALES.filter((l) => pred[l]), from index i on
RECURSIVE FilterLocales(_, _)
FilterLocales(pred, i) ==
    IF i > Len(LOCALES) THEN <<>>
    ELSE (IF pred[LOCALES[i]] THEN <<LOCALES[i]>> ELSE <<>>) \o FilterLocales(pred, i + 1)

\* ------------------------------------------------- step 1: validateConfig

\* The loop with the route check in the else branch of the slug check.
RECURSIVE CheckDuplicatesElseIf(_, _, _, _, _)
CheckDuplicatesElseIf(st, articles, i, slugs, routes) ==
    IF i > Len(articles) THEN st
    ELSE LET a  == articles[i]
             s1 == IF a.slug \in slugs
                   THEN LogError(st, Line("config", "", "dup-slug", "", a.slug, <<>>))
                   ELSE IF a.route \in routes
                   THEN LogError(st, Line("config", "", "dup-route", "", a.route, <<>>))
                   ELSE st
         IN  CheckDuplicatesElseIf(s1, articles, i + 1,
                                   slugs \cup {a.slug}, routes \cup {a.route})

\* The loop over result.data.articles with the sets slugs and routes.
RECURSIVE CheckDuplicates(_, _, _, _, _)
CheckDuplicates(st, articles, i, slugs, routes) ==
    IF i > Len(articles) THEN st
    ELSE LET a  == articles[i]
             s1 == IF a.slug \in slugs
                   THEN LogError(st, Line("config", "", "dup-slug", "", a.slug, <<>>))
                   ELSE st
             s2 == IF a.route \in routes
                   THEN LogError(s1, Line("config", "", "dup-route", "", a.route, <<>>))
                   ELSE s1
         IN  CheckDuplicates(s2, articles, i + 1, slugs \cup {a.slug}, routes \cup {a.route})

\* The catch block without its return: the error is written and an empty
\* registry goes on.
ParseFailedNoReturn(st) ==
    [st |-> LogError(st, Line("config", "", "config-badjson", "", "", <<>>)),
     result |-> [isNull |-> FALSE, articles |-> <<>>]]

\* catch (e) { logError(...); return null; }
ParseFailed(st) ==
    [st |-> LogError(st, Line("config", "", "config-badjson", "", "", <<>>)),
     result |-> NullConfig]

\* if (!result.success) { logError(...); for (issue) logError(...); return null; }
SchemaFailed(st, issues) ==
    [st |-> LogIssues(LogError(st, Line("config", "", "schema-header", "", "", <<>>)),
                      Line("config", "", "schema-issue", "", "", <<>>), issues),
     result |-> NullConfig]

\* validateConfig(): the console afterwards and the value returned.
validateConfig(st, f) ==
    LET s0 == LogHeader(st, "config")
    IN  IF f.kind = "missing"
        THEN [st |-> LogError(s0, Line("config", "", "config-missing", "", "", <<>>)),
              result |-> NullConfig]
        ELSE IF f.kind = "badjson"
        THEN ParseFailed(s0)
        ELSE IF f.issues > 0
        THEN SchemaFailed(s0, f.issues)
        ELSE [st |-> CheckDuplicates(
                        LogOk(s0, Line("config", "", "config-valid", "", "", <<>>)),
                        f.articles, 1, {}, {}),
              result |-> [isNull |-> FALSE, articles |-> f.articles]]

\* ---------------------------------------------- step 2: validateStructure

validateStructure(st, root, t) ==
    LET s0 == LogHeader(st, "structure")
        localeDirs == FilterLocales([l \in LocaleSet |-> LocaleDirExists(t, l)], 1)
    IN  IF ~root
        THEN LogError(s0, Line("structure", "", "no-articles-dir", "", "", <<>>))
        ELSE IF Len(localeDirs) = 0
        THEN LogError(s0, Line("structure", "", "no-locale-dirs", "", "", <<>>))
        ELSE LogOk(s0, Line("structure", "", "locales-found", "", "", localeDirs))

\* -------------------------------------------- step 3: validateFrontmatter

\* The body of the loop without the comparison of slug and file name.
CheckFileSkipsSlug(st, l, file, c) ==
    IF c.matter = "throws"
    THEN LogError(st, Line("frontmatter", "", "fm-parse", l, file.base, <<>>))
    ELSE IF c.issues > 0
    THEN LogIssues(
             LogError(st, Line("frontmatter", "", "fm-schema-header", l, file.base, <<>>)),
             Line("frontmatter", "", "fm-schema-issue", l, file.base, <<>>), c.issues)
    ELSE LogOk(st, Line("frontmatter", "", "fm-valid", l, file.base, <<>>))

\* The body of the loop over the files of one locale directory.
CheckFile(st, l, file, c) ==
    LET expectedSlug == BaseName(file)
    IN  IF c.matter = "throws"
        THEN LogError(st, Line("frontmatter", "", "fm-parse", l, file.base, <<>>))
        ELSE IF c.issues > 0
        THEN LogIssues(
                 LogError(st, Line("frontmatter", "", "fm-schema-header", l, file.base, <<>>)),
                 Line("frontmatter", "", "fm-schema-issue", l, file.base, <<>>), c.issues)
        ELSE IF c.slug # expectedSlug
        THEN LogError(st, Line("frontmatter", "", "fm-mismatch", l, file.base, <<>>))
        ELSE LogOk(st, Line("frontmatter", "", "fm-valid", l, file.base, <<>>))

\* The loop with break in the place of continue.
RECURSIVE CheckFilesBreak(_, _, _, _)
CheckFilesBreak(st, t, l, files) ==
    IF files = <<>> THEN st
    ELSE LET s1 == CheckFile(st, l, Head(files), t[l].entries[Head(files).base].content)
         IN  IF s1.errorCount > st.errorCount THEN s1
             ELSE CheckFilesBreak(s1, t, l, Tail(files))

\* for (const file of files) { ... }
RECURSIVE CheckFiles(_, _, _, _)
CheckFiles(st, t, l, files) ==
    IF files = <<>> THEN st
    ELSE CheckFiles(CheckFile(st, l, Head(files), t[l].entries[Head(files).base].content),
                    t, l, Tail(files))

\* for (const locale of LOCALES) { ... }
RECURSIVE CheckLocales(_, _, _)
CheckLocales(st, t, i) ==
    IF i > Len(LOCALES) THEN st
    ELSE LET l == LOCALES[i]
         IN  IF ~LocaleDirExists(t, l)
             THEN CheckLocales(st, t, i + 1)
             ELSE CheckLocales(CheckFiles(st, t, l, listMdxFiles(t, l)), t, i + 1)

validateFrontmatter(st, t) == CheckLocales(LogHeader(st, "frontmatter"), t, 1)

\* ------------------------------------------------- step 4: crossValidate

\* Set.add on a Set kept in insertion order
SetAdd(seq, x) ==
    IF \E i \in 1..Len(seq) : seq[i] = x THEN seq ELSE Append(seq, x)

RECURSIVE AddFiles(_, _)
AddFiles(acc, files) ==
    IF files = <<>> THEN acc
    ELSE AddFiles(SetAdd(acc, BaseName(Head(files))), Tail(files))

\* The loop with break in the place of continue.
RECURSIVE CollectSlugsBreak(_, _, _)
CollectSlugsBreak(acc, t, i) ==
    IF i > Len(LOCALES) THEN acc
    ELSE LET l == LOCALES[i]
         IN  IF ~LocaleDirExists(t, l)
             THEN acc
             ELSE CollectSlugsBreak(AddFiles(acc, listMdxFiles(t, l)), t, i + 1)

\* The loop filling allArticleSlugs with the base names of the article
\* files of every locale.
RECURSIVE CollectSlugs(_, _, _)
CollectSlugs(acc, t, i) ==
    IF i > Len(LOCALES) THEN acc
    ELSE LET l == LOCALES[i]
         IN  IF ~LocaleDirExists(t, l)
             THEN CollectSlugs(acc, t, i + 1)
             ELSE CollectSlugs(AddFiles(acc, listMdxFiles(t, l)), t, i + 1)

allArticleSlugs(t) == CollectSlugs(<<>>, t, 1)

SeqToSet(seq) == {seq[i] : i \in 1..Len(seq)}

\* The locales taken from the inventory of article files instead.
availableLocalesFromInventory(t, slug) ==
    FilterLocales([l \in LocaleSet |-> ArticlePathExists(t, l, slug)
                                       /\ IsMdxFile(t[l].entries[slug])], 1)

\* availableLocales of one registered slug
availableLocales(t, slug) ==
    FilterLocales([l \in LocaleSet |-> ArticlePathExists(t, l, slug)], 1)

\* The loop over config.articles
RECURSIVE CheckRegistered(_, _, _, _, _)
CheckRegistered(st, t, articles, i, all) ==
    IF i > Len(articles) THEN st
    ELSE LET a == articles[i]
             s1 == IF a.slug \in SeqToSet(all)
                   THEN LogOk(st, Line("cross", "", "exists-in", "", a.slug,
                                       availableLocales(t, a.slug)))
                   ELSE LogError(st, Line("cross", "", "no-file", "", a.slug, <<>>))
         IN  CheckRegistered(s1, t, articles, i + 1, all)

\* The loop over allArticleSlugs
RECURSIVE CheckOrphans(_, _, _, _)
CheckOrphans(st, all, i, registeredSlugs) ==
    IF i > Len(all) THEN st
    ELSE LET s1 == IF all[i] \notin registeredSlugs
                   THEN LogWarn(st, Line("cross", "", "orphan", "", all[i], <<>>))
                   ELSE st
         IN  CheckOrphans(s1, all, i + 1, registeredSlugs)

crossValidate(st, t, cfg) ==
    LET s0  == LogHeader(st, "cross")
        all == allArticleSlugs(t)
        s1  == CheckRegistered(s0, t, cfg.articles, 1, all)
        registeredSlugs == {cfg.articles[i].slug : i \in 1..Len(cfg.articles)}
    IN  CheckOrphans(s1, all, 1, registeredSlugs)

\* ------------------------------------------------------------------- main

\* An exit status that fails on warnings too.
ExitStatusWarnFails(errors, warnings) == IF errors > 0 \/ warnings > 0 THEN 1 ELSE 0

\* The verdict of main: process.exit(1) when errorCount > 0, otherwise the
\* process ends normally.
ExitStatus(errors, warnings) == IF errors > 0 THEN 1 ELSE 0

Verdict(errors, warnings) ==
    IF errors > 0 THEN "failed"
    ELSE IF warnings > 0 THEN "passed-with-warnings"
    ELSE "passed"

\* crossValidate entered whatever validateConfig returned.
AfterFrontmatterAlwaysCross(cfg) == "cross"

\* The step main runs after validateFrontmatter: if (config) crossValidate
AfterFrontmatter(cfg) == IF ~cfg.isNull THEN "cross" ELSE "summary"

Now == Console(log, errorCount, warnCount)

Write(st) ==
    /\ log' = st.log
    /\ errorCount' = st.errorCount
    /\ warnCount' = st.warnCount

\* Without articles/ there is no articles/<locale>.
TreeOk(root, t) == ~root => \A l \in LocaleSet : ~t[l].exists

\* The inputs of a run: any registry with a tree of at most one entry, or a
\* plain registry with a tree of several entries, which are article files
\* of several base names or entries of any kind of one base name.
Init ==
    /\ rootExists \in BOOLEAN
    /\ \/ tree \in SmallTrees /\ configFile \in ConfigFiles
       \/ tree \in FileTrees \cup FaqTrees /\ configFile \in PlainConfigFiles
    /\ TreeOk(rootExists, tree)
    /\ pc = "config"
    /\ config = NullConfig
    /\ errorCount = 0
    /\ warnCount = 0
    /\ log = <<>>
    /\ exitCode = -1

\* const config = validateConfig();
RunValidateConfig ==
    /\ pc = "config"
    /\ LET r == validateConfig(LogHeader(Now, "main"), configFile)
       IN  /\ Write(r.st)
           /\ config' = r.result
    /\ pc' = "structure"
    /\ UNCHANGED <<inputs, exitCode>>

\* validateStructure();
RunValidateStructure ==
    /\ pc = "structure"
    /\ Write(validateStructure(Now, rootExists, tree))
    /\ pc' = "frontmatter"
    /\ UNCHANGED <<inputs, config, exitCode>>

\* validateFrontmatter();
RunValidateFrontmatter ==
    /\ pc = "frontmatter"
    /\ Write(validateFrontmatter(Now, tree))
    /\ pc' = AfterFrontmatter(config)
    /\ UNCHANGED <<inputs, config, exitCode>>

\* if (config) crossValidate(config);
RunCrossValidate ==
    /\ pc = "cross"
    /\ Write(crossValidate(Now, tree, config))
    /\ pc' = "summary"
    /\ UNCHANGED <<inputs, config, exitCode>>

\* The summary and the end of the process.
Summary ==
    /\ pc = "summary"
    /\ log' = Append(LogHeader(Now, "summary").log,
                     Line("summary", "verdict", Verdict(errorCount, warnCount), "", "", <<>>))
    /\ exitCode' = ExitStatus(errorCount, warnCount)
    /\ pc' = "done"
    /\ UNCHANGED <<inputs, config, errorCount, warnCount>>

Next ==
    \/ RunValidateConfig
    \/ RunValidateStructure
    \/ RunValidateFrontmatter
    \/ RunCrossValidate
    \/ Summary

Spec == Init /\ [][Next]_vars

\* ------------------------------------------------------------- vocabulary

Lines(P(_)) == {i \in 1..Len(log) : P(log[i])}

Count(P(_)) == Cardinality(Lines(P))

IsError(x) == x.level = "error"

IsWarn(x) == x.level = "warn"

IsHeader(x) == x.level = "header"

ConfigReturned == pc # "config"

StructureReturned == pc \notin {"config", "structure"}

FrontmatterReturned == pc \in {"cross", "summary", "done"}

CrossReturned == pc \in {"summary", "done"} /\ ~config.isNull

\* The steps in the order their headers were printed.
RECURSIVE HeaderSteps(_)
HeaderSteps(l) ==
    IF l = <<>> THEN <<>>
    ELSE (IF IsHeader(Head(l)) THEN <<Head(l).step>> ELSE <<>>) \o HeaderSteps(Tail(l))

IsPrefix(a, b) == Len(a) <= Len(b) /\ \A i \in 1..Len(a) : a[i] = b[i]

\* Every line is written by the step whose header was printed last.
UnderOwnHeader ==
    \A i \in 1..Len(log) :
        IsHeader(log[i]) \/ (i > 1 /\ log[i].step = log[i - 1].step)

\* The regular files <n>.mdx of the existing locale directories.
ArticleFiles ==
    {f \in LocaleSet \X Names :
        /\ tree[f[1]].exists
        /\ tree[f[1]].entries[f[2]].present
        /\ tree[f[1]].entries[f[2]].ext = ".mdx"
        /\ tree[f[1]].entries[f[2]].isFile}

ContentOf(f) == tree[f[1]].entries[f[2]].content

\* The on-disk universe: the base names of the article files.
Universe == {f[2] : f \in ArticleFiles}

Articles == configFile.articles

Registered == {Articles[i].slug : i \in 1..Len(Articles)}

\* ---------------------------------------------------------------------- C1

\* C1: when main has ended, the exit status is non-zero exactly when the
\* accumulated error count is positive; the error count is the number of
\* logError lines of the run, and the warning count plays no part.
C1_ExitStatusIffErrors ==
    pc = "done" =>
        /\ exitCode \in {0, 1}
        /\ exitCode # 0 <=> errorCount > 0
        /\ errorCount = Count(IsError)
        /\ warnCount = Count(IsWarn)

C1_Witness == pc = "done" /\ warnCount > 0 /\ errorCount = 0 /\ exitCode = 0

\* ---------------------------------------------------------------------- C2

\* C2 as stated: the structure check runs first, then the registry check,
\* then the metadata check, then cross-referencing.
C2_StructureBeforeRegistry ==
    /\ \/ IsPrefix(HeaderSteps(log),
                   <<"main", "structure", "config", "frontmatter", "cross", "summary">>)
       \/ IsPrefix(HeaderSteps(log),
                   <<"main", "structure", "config", "frontmatter", "summary">>)
    /\ UnderOwnHeader
    /\ \A i, j \in 1..Len(log) :
           log[i].step = "structure" /\ log[j].step = "config" => i < j

\* C2, amended: the registry check runs first, then the structure check,
\* then the metadata check, then cross-referencing and only when the
\* registry check returned a registry; each step's lines follow its header
\* and precede the next step's, so every line of the registry check precedes
\* every line of the structure check.
C2_RegistryBeforeStructure ==
    /\ \/ IsPrefix(HeaderSteps(log),
                   <<"main", "config", "structure", "frontmatter", "cross", "summary">>)
       \/ IsPrefix(HeaderSteps(log),
                   <<"main", "config", "structure", "frontmatter", "summary">>)
    /\ UnderOwnHeader
    /\ \A i, j \in 1..Len(log) :
           log[i].step = "config" /\ log[j].step = "structure" => i < j
    /\ (\E i \in 1..Len(log) : log[i].step = "cross") => ~config.isNull
    /\ pc = "done" =>
           Len(HeaderSteps(log)) = (IF config.isNull THEN 5 ELSE 6)

C2_Witness ==
    /\ pc = "done"
    /\ HeaderSteps(log) = <<"main", "config", "structure", "frontmatter", "cross", "summary">>
    /\ Len(log) > 8

\* ---------------------------------------------------------------------- C3

InConfig(x) == x.step = "config"

InCross(x) == x.step = "cross"

ConfigError(x) == InConfig(x) /\ IsError(x)

FileLine(f, x) == x.step = "frontmatter" /\ ~IsHeader(x) /\ x.locale = f[1] /\ x.name = f[2]

\* C3: when config.json is not JSON, validateConfig writes exactly one
\* error, the parse error, and returns null; the structure check and the
\* metadata check still run, the latter over every article file;
\* crossValidate is never entered and writes nothing; the exit status is
\* non-zero.
C3_ParseFailureSkipsCrossOnly ==
    configFile.kind = "badjson" =>
        /\ ConfigReturned =>
               /\ config.isNull
               /\ Count(ConfigError) = 1
               /\ \A i \in Lines(ConfigError) : log[i].kind = "config-badjson"
        /\ pc # "cross"
        /\ Count(InCross) = 0
        /\ pc = "done" =>
               /\ HeaderSteps(log) = <<"main", "config", "structure", "frontmatter", "summary">>
               /\ \A f \in ArticleFiles : \E i \in 1..Len(log) : FileLine(f, log[i])
               /\ exitCode # 0

C3_Witness ==
    /\ configFile.kind = "badjson"
    /\ pc = "done"
    /\ Cardinality(ArticleFiles) = 2
    /\ errorCount = 1

\* ---------------------------------------------------------------------- C4

EarlierSlug(i) == \E j \in 1..(i - 1) : Articles[j].slug = Articles[i].slug

EarlierRoute(i) == \E j \in 1..(i - 1) : Articles[j].route = Articles[i].route

\* The values f[i], in declared order, of the entries i with p[i].
RECURSIVE SelectFrom(_, _, _)
SelectFrom(i, p, f) ==
    IF i > Len(Articles) THEN <<>>
    ELSE (IF p[i] THEN <<f[i]>> ELSE <<>>) \o SelectFrom(i + 1, p, f)

Select(P(_), F(_)) ==
    SelectFrom(1, [i \in 1..Len(Articles) |-> P(i)], [i \in 1..Len(Articles) |-> F(i)])

SlugOf(i) == Articles[i].slug

RouteOf(i) == Articles[i].route

\* The names of the lines of one kind, in the order written.
RECURSIVE NamesOfKind(_, _)
NamesOfKind(l, kind) ==
    IF l = <<>> THEN <<>>
    ELSE (IF Head(l).kind = kind THEN <<Head(l).name>> ELSE <<>>) \o NamesOfKind(Tail(l), kind)

\* C4: for a schema-valid registry the duplicate-slug errors are, in
\* declared order, the slugs of exactly the entries whose slug an earlier
\* entry has, and the duplicate-route errors the routes of exactly the
\* entries whose route an earlier entry has; these are all the errors of
\* validateConfig, which still returns the registry, and crossValidate runs.
C4_DuplicatesPerLaterEntry ==
    (configFile.kind = "valid" /\ ConfigReturned) =>
        /\ NamesOfKind(log, "dup-slug") = Select(EarlierSlug, SlugOf)
        /\ NamesOfKind(log, "dup-route") = Select(EarlierRoute, RouteOf)
        /\ Count(ConfigError) = Len(Select(EarlierSlug, SlugOf))
                                + Len(Select(EarlierRoute, RouteOf))
        /\ ~config.isNull
        /\ config.articles = Articles
        /\ pc = "done" => \E i \in 1..Len(log) : InCross(log[i]) /\ IsHeader(log[i])

\* One entry repeats the slug and the route of an earlier one, another run
\* repeats only the route: here the former.
C4_Witness ==
    /\ pc = "done"
    /\ configFile.kind = "valid"
    /\ Len(Articles) = 2
    /\ Articles[1] = Articles[2]
    /\ Count(ConfigError) = 2

\* ---------------------------------------------------------------------- C5

RefKind(i) == IF Articles[i].slug \in Universe THEN "exists-in" ELSE "no-file"

IsEntryLine(x) == InCross(x) /\ x.kind \in {"exists-in", "no-file"}

NotOnDisk(i) == Articles[i].slug \notin Universe

RECURSIVE EntryLines(_)
EntryLines(l) ==
    IF l = <<>> THEN <<>>
    ELSE (IF IsEntryLine(Head(l)) THEN <<Head(l)>> ELSE <<>>) \o EntryLines(Tail(l))

\* C5: crossValidate writes one line per registry entry, in declared order
\* and duplicates included: a success line when the entry's slug is the
\* base name of an article file of some existing locale directory, an error
\* naming the slug otherwise.  These are all its errors, so their number is
\* the number of entries without an article file, and any such entry makes
\* the exit status non-zero.
C5_OneErrorPerMissingArticle ==
    CrossReturned =>
        LET entryLines == EntryLines(log)
        IN  /\ Len(entryLines) = Len(Articles)
            /\ \A i \in 1..Len(Articles) :
                   /\ entryLines[i].name = Articles[i].slug
                   /\ entryLines[i].kind = RefKind(i)
                   /\ entryLines[i].level = (IF RefKind(i) = "no-file" THEN "error" ELSE "ok")
            /\ NamesOfKind(log, "no-file") = Select(NotOnDisk, SlugOf)
            /\ \A i \in 1..Len(log) : (InCross(log[i]) /\ IsError(log[i])) => log[i].kind = "no-file"
            /\ (pc = "done" /\ \E i \in 1..Len(Articles) : NotOnDisk(i)) => exitCode # 0

C5_Witness ==
    /\ pc = "done"
    /\ ~config.isNull
    /\ Len(Articles) = 2
    /\ Articles[1].slug = "guide"
    /\ Articles[2].slug = "faq"
    /\ "faq" \in Universe
    /\ ~tree["ru"].exists
    /\ errorCount = 1

\* ---------------------------------------------------------------------- C6

IsOrphanLine(x) == x.kind = "orphan"

\* C6: crossValidate reports an article file whose base name no registry
\* entry has as a warning and never as an error: there is exactly one
\* orphan warning per such base name (one for all the locales holding it),
\* these are all the warnings of the run, and no error of crossValidate
\* names an unregistered slug.  With zero entries every base name on disk is
\* warned about, and a run whose only findings are orphans ends with exit
\* status zero.
C6_OrphansAreWarnings ==
    CrossReturned =>
        /\ \A n \in Universe \ Registered :
               Cardinality({i \in Lines(IsOrphanLine) : log[i].name = n}) = 1
        /\ \A i \in Lines(IsOrphanLine) :
               /\ log[i].name \in Universe \ Registered
               /\ log[i].level = "warn"
               /\ InCross(log[i])
        /\ warnCount = Cardinality(Universe \ Registered)
        /\ \A i \in 1..Len(log) : (InCross(log[i]) /\ IsError(log[i])) => log[i].name \in Registered
        /\ Len(Articles) = 0 => warnCount = Cardinality(Universe)
        /\ (pc = "done" /\ errorCount = 0) => exitCode = 0

\* Scenario C: one valid article file that no entry registers.
C6_Witness ==
    /\ pc = "done"
    /\ ~config.isNull
    /\ Cardinality(ArticleFiles) = 1
    /\ Universe \ Registered # {}
    /\ warnCount = 1
    /\ errorCount = 0
    /\ exitCode = 0

\* ---------------------------------------------------------------------- C7

IsExistsLine(x) == InCross(x) /\ x.kind = "exists-in"

\* The locales of LOCALES, in its order, that are in S.
RECURSIVE InLocalesOrder(_, _)
InLocalesOrder(S, i) ==
    IF i > Len(LOCALES) THEN <<>>
    ELSE (IF LOCALES[i] \in S THEN <<LOCALES[i]>> ELSE <<>>) \o InLocalesOrder(S, i + 1)

\* The locales whose directory holds an article file of base name n.
LocalesWithFile(n) == {l \in LocaleSet : <<l, n>> \in ArticleFiles}

\* The locales whose directory holds an entry n.mdx of any kind.
LocalesWithPath(n) ==
    {l \in LocaleSet :
        /\ tree[l].exists
        /\ n \in Names
        /\ tree[l].entries[n].present
        /\ tree[l].entries[n].ext = ".mdx"}

\* Scenario A: the registry is the one entry faq; faq.mdx is a valid
\* article file in en and in ru and absent from cz; nothing else is on disk.
ScenarioA ==
    /\ configFile.kind = "valid"
    /\ Len(Articles) = 1
    /\ Articles[1].slug = "faq"
    /\ ArticleFiles = {<<"en", "faq">>, <<"ru", "faq">>}
    /\ \A f \in ArticleFiles : ContentOf(f).matter = "ok" /\ ContentOf(f).slug = "faq"
    /\ \A l \in LocaleSet : tree[l].exists => \A n \in Names :
           tree[l].entries[n].present => <<l, n>> \in ArticleFiles

\* C7 as stated: a success line lists exactly the locales in whose
\* directory the per-locale existence check finds the slug, and in
\* Scenario A the line reads en, ru, with no error and no warning in the run.
C7_ScenarioAListsEnRu ==
    /\ \A i \in Lines(IsExistsLine) :
           {log[i].locales[k] : k \in 1..Len(log[i].locales)} = LocalesWithPath(log[i].name)
    /\ (ScenarioA /\ pc = "done") =>
           /\ \E i \in Lines(IsExistsLine) : log[i].locales = <<"en", "ru">>
           /\ errorCount = 0
           /\ warnCount = 0

\* C7, amended: a success line lists, in the order of LOCALES (ru, en, cz),
\* exactly the locales in whose directory a path <slug>.mdx exists, be it a
\* regular file or not; at least one of them holds a regular file.  In
\* Scenario A the one success line reads ru, en, and the run has no error
\* and no warning.
C7_ListsLocalesWithPathRuEn ==
    /\ \A i \in Lines(IsExistsLine) :
           /\ log[i].locales = InLocalesOrder(LocalesWithPath(log[i].name), 1)
           /\ LocalesWithFile(log[i].name) # {}
           /\ LocalesWithFile(log[i].name) \subseteq LocalesWithPath(log[i].name)
    /\ (ScenarioA /\ pc = "done") =>
           /\ Count(IsExistsLine) = 1
           /\ \A i \in Lines(IsExistsLine) :
                  log[i].name = "faq" /\ log[i].locales = <<"ru", "en">>
           /\ errorCount = 0
           /\ warnCount = 0

C7_Witness ==
    /\ ScenarioA
    /\ pc = "done"
    /\ \E i \in Lines(IsExistsLine) : log[i].locales = <<"ru", "en">>

\* A success line that lists a locale holding a directory faq.mdx.
C7_ListsDirectory ==
    \E i \in Lines(IsExistsLine) :
        LocalesWithFile(log[i].name) # LocalesWithPath(log[i].name)

\* ---------------------------------------------------------------------- C8

IsIssueLine(x) == InConfig(x) /\ x.kind = "schema-issue"

IsDupLine(x) == x.kind \in {"dup-slug", "dup-route"}

\* C8 as stated: a registry with k schema violations raises the error
\* counter by exactly k in validateConfig.
C8_SchemaErrorsExactlyK ==
    (configFile.kind = "invalid" /\ pc = "structure") =>
        errorCount = configFile.issues

\* C8, amended: a registry with k >= 1 schema violations makes validateConfig
\* write one error announcing the failure and then one itemized error per
\* violation, all k of them, so the error counter rises by exactly k + 1 in
\* that step; it returns null without any duplicate check, and
\* crossValidate is skipped.
C8_SchemaErrorsHeaderPlusK ==
    (configFile.kind = "invalid" /\ ConfigReturned) =>
        /\ Count(IsIssueLine) = configFile.issues
        /\ \A i \in Lines(IsIssueLine) : IsError(log[i])
        /\ Count(ConfigError) = configFile.issues + 1
        /\ \A i \in Lines(ConfigError) : log[i].kind \in {"schema-header", "schema-issue"}
        /\ pc = "structure" => errorCount = configFile.issues + 1
        /\ Count(IsDupLine) = 0
        /\ config.isNull
        /\ pc # "cross"
        /\ Count(InCross) = 0

C8_Witness ==
    /\ configFile.kind = "invalid"
    /\ configFile.issues >= 2
    /\ pc = "done"
    /\ Count(IsIssueLine) = configFile.issues
    /\ exitCode = 1

\* ---------------------------------------------------------------------- C9

\* Article files that are schema-valid and declare another slug than their
\* base name.
Mismatched ==
    {f \in ArticleFiles :
        ContentOf(f).matter = "ok" /\ ContentOf(f).issues = 0 /\ ContentOf(f).slug # f[2]}

\* C9: a schema-valid article file whose slug is not its base name gets
\* exactly one line from validateFrontmatter, the mismatch error, and the
\* files after it are still examined; crossValidate knows it by its base
\* name: an entry with that slug gets a success line and no referential
\* error, without such an entry the base name gets one orphan warning, and
\* no line of crossValidate names a slug that is no base name on disk and
\* no registered slug.
C9_MismatchKeepsBaseName ==
    /\ FrontmatterReturned =>
           /\ \A f \in Mismatched :
                  /\ Cardinality({i \in 1..Len(log) : FileLine(f, log[i])}) = 1
                  /\ \A i \in 1..Len(log) : FileLine(f, log[i]) =>
                         log[i].kind = "fm-mismatch" /\ IsError(log[i])
           /\ \A f \in ArticleFiles : \E i \in 1..Len(log) : FileLine(f, log[i])
    /\ CrossReturned =>
           /\ \A f \in Mismatched :
                  IF f[2] \in Registered
                  THEN /\ \E i \in Lines(IsExistsLine) : log[i].name = f[2]
                       /\ \A i \in 1..Len(log) : log[i].kind = "no-file" => log[i].name # f[2]
                  ELSE Cardinality({i \in Lines(IsOrphanLine) : log[i].name = f[2]}) = 1
           /\ \A i \in Lines(InCross) :
                  IsHeader(log[i]) \/ log[i].name \in Universe \cup Registered

\* baz.mdx declares foo-bar and is followed by faq.mdx in the same directory.
C9_Witness ==
    /\ pc = "done"
    /\ ~config.isNull
    /\ \E l \in LocaleSet : {<<l, "baz">>, <<l, "faq">>} \subseteq ArticleFiles
                            /\ <<l, "baz">> \in Mismatched
    /\ "faq" \in Registered

C9_WitnessRegistered ==
    /\ pc = "done"
    /\ ~config.isNull
    /\ \E f \in Mismatched : f[2] \in Registered

\* --------------------------------------------------------------------- C10

Valid(f) ==
    ContentOf(f).matter = "ok" /\ ContentOf(f).issues = 0 /\ ContentOf(f).slug = f[2]

IsFirstLine(x) == x.kind \in {"fm-parse", "fm-schema-header", "fm-mismatch", "fm-valid"}

IsFrontmatterLine(x) == x.step = "frontmatter" /\ ~IsHeader(x)

\* C10: validateFrontmatter examines every article file of every existing
\* locale directory exactly once and nothing else; a file whose block is
\* extractable, schema-valid and declares the base name gets exactly one
\* line, a success line; every other file gets at least one error and no
\* success line; whatever one file gets, the others are examined.
C10_EachFileOnceOkOrError ==
    FrontmatterReturned =>
        /\ \A f \in ArticleFiles :
               LET mine == {i \in 1..Len(log) : FileLine(f, log[i])}
               IN  /\ Cardinality({i \in mine : IsFirstLine(log[i])}) = 1
                   /\ \A i, j \in mine : \A k \in i..j : k \in mine
                   /\ IF Valid(f)
                      THEN Cardinality(mine) = 1 /\ \A i \in mine : log[i].kind = "fm-valid"
                                                                     /\ log[i].level = "ok"
                      ELSE \A i \in mine : IsError(log[i])
        /\ \A i \in Lines(IsFrontmatterLine) : <<log[i].locale, log[i].name>> \in ArticleFiles
        /\ Count(IsFrontmatterLine) >= Cardinality(ArticleFiles)

\* Two files of one directory, the first of which fails.
C10_Witness ==
    /\ pc = "done"
    /\ \E l \in LocaleSet :
           /\ {<<l, "baz">>, <<l, "faq">>} \subseteq ArticleFiles
           /\ ~Valid(<<l, "baz">>)
           /\ Valid(<<l, "faq">>)
====
